---- MODULE Spec2Model ----
(***************************************************************************)
(* A model of pe_tools/pe_parser.py: the _PeFile object built by parse_pe  *)
(* from a byte blob, its query and mutation methods, and store().          *)
(*                                                                         *)
(* Blobs are sequences of bytes (0..255).  The record codec (structs2) and *)
(* the blob helpers (blob) are not part of pe_parser.py; they are modelled *)
(* from their documented interface: little-endian fixed-layout records in  *)
(* declared field order, Python slicing, concatenation and zero padding.   *)
(***************************************************************************)
EXTENDS Integers, Sequences, FiniteSets, TLC

(***************************************************************************)
(* Bounds of the model.                                                    *)
(***************************************************************************)
MaxTrailerWords == 2   \* trailers of the inputs have 0..MaxTrailerWords 16-bit words
MaxSizeUnits    == 3   \* resize_directory sizes are 0..MaxSizeUnits units of 8 bytes
MaxBlobUnits    == 1   \* set_directory blobs have 0..MaxBlobUnits units of 6 bytes
MaxQueryIdx     == 6   \* the directory indexes passed to the methods reach MaxQueryIdx

(***************************************************************************)
(* Program constants.                                                      *)
(***************************************************************************)
IMAGE_NT_OPTIONAL_HDR32_MAGIC == 267     \* 0x10b
IMAGE_NT_OPTIONAL_HDR64_MAGIC == 523     \* 0x20b
IMAGE_DIRECTORY_ENTRY_IMPORT == 1
IMAGE_DIRECTORY_ENTRY_SECURITY == 4

\* an optional value: None, or Some(x) holding x
None == <<>>
Some(x) == <<x>>
IsNone(o) == o = <<>>
Val(o) == o[1]

Min(a, b) == IF a < b THEN a ELSE b
Max(a, b) == IF a > b THEN a ELSE b

(***************************************************************************)
(* Byte buffers (blob.py).                                                 *)
(***************************************************************************)
\* blob[start:stop] for 0 <= start, 0 <= stop: Python clamps both to the length
Slice(blob, start, stop) ==
    SubSeq(blob, Min(start, Len(blob)) + 1, Min(stop, Len(blob)))

\* blob[start:]
SliceFrom(blob, start) == Slice(blob, start, Len(blob))

\* blob[:-n] for n > 0
SliceDropLast(blob, n) == SubSeq(blob, 1, Max(0, Len(blob) - n))

PadBlob(n) == [i \in 1..n |-> 0]

RECURSIVE join_blobs(_)
join_blobs(blobs) ==
    IF blobs = <<>> THEN <<>> ELSE Head(blobs) \o join_blobs(Tail(blobs))

(***************************************************************************)
(* Record codec (structs2.py): little-endian integers of a fixed width.    *)
(***************************************************************************)
RECURSIVE PackInt(_, _)
PackInt(v, width) ==
    IF width = 0 THEN <<>> ELSE <<v % 256>> \o PackInt(v \div 256, width - 1)

RECURSIVE UnpackInt(_)
UnpackInt(bytes) ==
    IF bytes = <<>> THEN 0 ELSE Head(bytes) + 256 * UnpackInt(Tail(bytes))

\* a layout is a sequence of <<name, width, kind>>, kind "int" or "bytes"
RECURSIVE StructSize(_)
StructSize(layout) ==
    IF layout = <<>> THEN 0 ELSE Head(layout)[2] + StructSize(Tail(layout))

FieldOffset(layout, k) == StructSize(SubSeq(layout, 1, k - 1))

FieldNames(layout) == {layout[k][1] : k \in 1..Len(layout)}

FieldIndex(layout, name) == CHOOSE k \in 1..Len(layout) : layout[k][1] = name

StructParse(layout, bytes) ==
    [name \in FieldNames(layout) |->
        LET k   == FieldIndex(layout, name)
            raw == Slice(bytes, FieldOffset(layout, k), FieldOffset(layout, k) + layout[k][2])
        IN  IF layout[k][3] = "int" THEN UnpackInt(raw) ELSE raw]

RECURSIVE StructPackFrom(_, _, _)
StructPackFrom(layout, rec, k) ==
    IF k > Len(layout) THEN <<>>
    ELSE (IF layout[k][3] = "int" THEN PackInt(rec[layout[k][1]], layout[k][2])
                                  ELSE rec[layout[k][1]])
         \o StructPackFrom(layout, rec, k + 1)

StructPack(layout, rec) == StructPackFrom(layout, rec, 1)

IMAGE_FILE_HEADER ==
    << <<"Machine", 2, "int">>, <<"NumberOfSections", 2, "int">>,
       <<"TimeDateStamp", 4, "int">>, <<"PointerToSymbolTable", 4, "int">>,
       <<"NumberOfSymbols", 4, "int">>, <<"SizeOfOptionalHeader", 2, "int">>,
       <<"Characteristics", 2, "int">> >>

OptionalHeaderLayout(wide) ==
    << <<"MajorLinkerVersion", 1, "int">>, <<"MinorLinkerVersion", 1, "int">>,
       <<"SizeOfCode", 4, "int">>, <<"SizeOfInitializedData", 4, "int">>,
       <<"SizeOfUninitializedData", 4, "int">>, <<"AddressOfEntryPoint", 4, "int">>,
       <<"BaseOfCode", 4, "int">> >>
    \o (IF wide = 4 THEN << <<"BaseOfData", 4, "int">>, <<"ImageBase", 4, "int">> >>
                    ELSE << <<"ImageBase", 8, "int">> >>)
    \o << <<"SectionAlignment", 4, "int">>, <<"FileAlignment", 4, "int">>,
          <<"MajorOperatingSystemVersion", 2, "int">>, <<"MinorOperatingSystemVersion", 2, "int">>,
          <<"MajorImageVersion", 2, "int">>, <<"MinorImageVersion", 2, "int">>,
          <<"MajorSubsystemVersion", 2, "int">>, <<"MinorSubsystemVersion", 2, "int">>,
          <<"Reserved1", 4, "int">>, <<"SizeOfImage", 4, "int">>,
          <<"SizeOfHeaders", 4, "int">>, <<"CheckSum", 4, "int">>,
          <<"Subsystem", 2, "int">>, <<"DllCharacteristics", 2, "int">>,
          <<"SizeOfStackReserve", wide, "int">>, <<"SizeOfStackCommit", wide, "int">>,
          <<"SizeOfHeapReserve", wide, "int">>, <<"SizeOfHeapCommit", wide, "int">>,
          <<"LoaderFlags", 4, "int">>, <<"NumberOfRvaAndSizes", 4, "int">> >>

IMAGE_OPTIONAL_HEADER32 == OptionalHeaderLayout(4)
IMAGE_OPTIONAL_HEADER64 == OptionalHeaderLayout(8)

\* the layout of a parsed optional header, chosen by the magic kept in opt.sig
OptLayoutOf(sig) ==
    IF sig = IMAGE_NT_OPTIONAL_HDR32_MAGIC THEN IMAGE_OPTIONAL_HEADER32
                                           ELSE IMAGE_OPTIONAL_HEADER64

IMAGE_DATA_DIRECTORY ==
    << <<"VirtualAddress", 4, "int">>, <<"Size", 4, "int">> >>

IMAGE_SECTION_HEADER ==
    << <<"Name", 8, "bytes">>, <<"VirtualSize", 4, "int">>,
       <<"VirtualAddress", 4, "int">>, <<"SizeOfRawData", 4, "int">>,
       <<"PointerToRawData", 4, "int">>, <<"PointerToRelocations", 4, "int">>,
       <<"PointerToLinenumbers", 4, "int">>, <<"NumberOfRelocations", 2, "int">>,
       <<"NumberOfLinenumbers", 2, "int">>, <<"Characteristics", 4, "int">> >>

(***************************************************************************)
(* _align and pe_checksum.                                                 *)
(***************************************************************************)
align(offs, alignment) == ((offs + alignment - 1) \div alignment) * alignment

\* sum(words) for the little-endian 16-bit words lo..hi of blob, word w being
\* the bytes 2w-1 and 2w; the range is summed by halves
RECURSIVE WordSum(_, _, _)
WordSum(blob, lo, hi) ==
    IF lo > hi THEN 0
    ELSE IF lo = hi THEN blob[2 * lo - 1] + 256 * blob[2 * lo]
    ELSE LET mid == (lo + hi) \div 2
         IN  WordSum(blob, lo, mid) + WordSum(blob, mid + 1, hi)

RECURSIVE FoldOnce(_)
FoldOnce(c) == IF c = 0 THEN 0 ELSE (c % 65536) + FoldOnce(c \div 65536)

RECURSIVE Fold(_)
Fold(r) == IF r > 65535 THEN Fold(FoldOnce(r)) ELSE r

\* struct.unpack of the tail raises struct.error when an odd byte is left over;
\* the 0x1000-byte blocks before it are summed the same way
pe_checksum(blob) ==
    IF Len(blob) % 2 # 0
    THEN [exc |-> "struct.error", value |-> 0]
    ELSE [exc |-> "none", value |-> Fold(WordSum(blob, 1, Len(blob) \div 2)) + Len(blob)]

(***************************************************************************)
(* The _PeFile object.  A section is [hdr, data, attr]: hdr the parsed     *)
(* IMAGE_SECTION_HEADER, data its raw bytes or None, and attr the plain    *)
(* attributes VirtualAddress/VirtualSize that _resize_directory sets on    *)
(* the _PeSection object itself (None while they do not exist).            *)
(***************************************************************************)
VARIABLES dos_stub, file_header, opt_header, data_directories, sections,
          trailer_offset, trailer, checksum_offs, ret

vars == <<dos_stub, file_header, opt_header, data_directories, sections,
          trailer_offset, trailer, checksum_offs, ret>>

\* the indexes of xs in the order sorted(xs, key) visits them (stable)
SortedIdx(keys) ==
    LET n == Len(keys)
        Rank(i) == Cardinality({j \in 1..n : keys[j] < keys[i]
                                             \/ (keys[j] = keys[i] /\ j < i)}) + 1
    IN  [r \in 1..n |-> CHOOSE i \in 1..n : Rank(i) = r]

\* the outcome of _check_vm_overlaps: "none" when it returns
check_vm_overlaps(secs, SectionAlignment) ==
    LET order  == SortedIdx([k \in 1..Len(secs) |-> secs[k].hdr.VirtualAddress])
        sorted == [r \in 1..Len(secs) |-> secs[order[r]]]
        Bad(r) == \/ sorted[r].hdr.VirtualAddress % SectionAlignment # 0
                  \/ /\ r > 1
                     /\ sorted[r - 1].hdr.VirtualAddress + sorted[r - 1].hdr.VirtualSize
                            > sorted[r].hdr.VirtualAddress
    IN  IF secs = <<>> THEN "none"
        ELSE IF SectionAlignment = 0 THEN "ZeroDivisionError"
        ELSE IF \E r \in 1..Len(secs) : Bad(r) THEN "RuntimeError"
        ELSE "none"

make_pe_section(blob, hdr) ==
    [hdr  |-> hdr,
     data |-> IF hdr.PointerToRawData = 0 THEN None
              ELSE Some(Slice(blob, hdr.PointerToRawData,
                              hdr.PointerToRawData + hdr.SizeOfRawData)),
     attr |-> None]

PE_SIGNATURE == <<80, 69, 0, 0>>

Failed(exc) == [exc |-> exc, self |-> None]

\* the sections with raw data in file order (line 195)
present_secs_of(secs) ==
    LET present == SelectSeq(secs, LAMBDA sec : sec.hdr.SizeOfRawData # 0)
        order   == SortedIdx([k \in 1..Len(present) |-> present[k].hdr.PointerToRawData])
    IN  [r \in 1..Len(present) |-> present[order[r]]]

\* lines 196-218: the layout tests and the object
parse_layout(blob, pe_offs, hdr, opt, dds, secs, present_secs, vm_exc) ==
    LET last_sec == present_secs[Len(present_secs)]
        end_of_image == last_sec.hdr.PointerToRawData + last_sec.hdr.SizeOfRawData
    IN  IF present_secs = <<>> THEN Failed("RuntimeError")
        ELSE IF \E i \in 2..Len(present_secs) :
                    present_secs[i - 1].hdr.PointerToRawData + present_secs[i - 1].hdr.SizeOfRawData
                        # present_secs[i].hdr.PointerToRawData
             THEN Failed("RuntimeError")
        ELSE IF vm_exc # "none" THEN Failed(vm_exc)
        ELSE [exc  |-> "none",
              self |-> [dos_stub         |-> Slice(blob, 0, pe_offs),
                        file_header      |-> hdr,
                        opt_header       |-> opt,
                        data_directories |-> dds,
                        sections         |-> secs,
                        trailer_offset   |-> end_of_image,
                        trailer          |-> SliceFrom(blob, end_of_image),
                        checksum_offs    |-> pe_offs + 4 + StructSize(IMAGE_FILE_HEADER) + 4 * 16]]

\* lines 193-195: the sections of the parsed headers
parse_sections(blob, pe_offs, hdr, opt, dds, secs) ==
    parse_layout(blob, pe_offs, hdr, opt, dds, secs, present_secs_of(secs),
                 check_vm_overlaps(secs, opt.SectionAlignment))

\* lines 173-193: the alignment tests, with the directories and section headers read
parse_tables(blob, pe_offs, hdr, opt, dds, hdrs) ==
    IF opt.FileAlignment = 0 THEN Failed("RuntimeError")
    ELSE IF \E k \in 1..Len(hdrs) :
                \/ hdrs[k].PointerToRawData % opt.FileAlignment # 0
                \/ hdrs[k].SizeOfRawData % opt.FileAlignment # 0
         THEN Failed("RuntimeError")
    ELSE parse_sections(blob, pe_offs, hdr, opt, dds,
                        [k \in 1..Len(hdrs) |-> make_pe_section(blob, hdrs[k])])

\* lines 166-171 and the reads of lines 176 and 193; sum is "none" when the
\* checksum test passes
parse_checked(blob, pe_offs, hdr, opt, sum) ==
    LET dd_offs  == pe_offs + 4 + StructSize(IMAGE_FILE_HEADER) + 2
                    + StructSize(OptLayoutOf(opt.sig))
        sec_offs == dd_offs + opt.NumberOfRvaAndSizes * StructSize(IMAGE_DATA_DIRECTORY)
    IN  IF sum # "none" THEN Failed(sum)
        ELSE parse_tables(blob, pe_offs, hdr, opt,
                [k \in 1..opt.NumberOfRvaAndSizes |->
                    StructParse(IMAGE_DATA_DIRECTORY,
                        SliceFrom(blob, dd_offs + (k - 1) * StructSize(IMAGE_DATA_DIRECTORY)))],
                [k \in 1..hdr.NumberOfSections |->
                    StructParse(IMAGE_SECTION_HEADER,
                        SliceFrom(blob, sec_offs + (k - 1) * StructSize(IMAGE_SECTION_HEADER)))])

\* lines 168-171: the outcome of the checksum test given the checksum computed
checksum_test(opt, real) ==
    IF real.exc # "none" THEN real.exc
    ELSE IF opt.CheckSum # real.value THEN "RuntimeError"
    ELSE "none"

\* lines 166-171
parse_checksum(blob, pe_offs, hdr, opt) ==
    LET cs_offs == pe_offs + 4 + StructSize(IMAGE_FILE_HEADER) + 4 * 16
    IN  parse_checked(blob, pe_offs, hdr, opt,
            IF opt.CheckSum = 0 THEN "none"
            ELSE checksum_test(opt,
                    pe_checksum(Slice(blob, 0, cs_offs) \o <<0, 0, 0, 0>>
                                \o SliceFrom(blob, cs_offs + 4))))

\* lines 155-164: the optional header of the magic read
parse_optional(blob, pe_offs, hdr, opt_sig) ==
    IF opt_sig \notin {IMAGE_NT_OPTIONAL_HDR32_MAGIC, IMAGE_NT_OPTIONAL_HDR64_MAGIC}
    THEN Failed("RuntimeError")
    ELSE parse_checksum(blob, pe_offs, hdr,
            [sig |-> opt_sig] @@
            StructParse(OptLayoutOf(opt_sig),
                SliceFrom(blob, pe_offs + 4 + StructSize(IMAGE_FILE_HEADER) + 2)))

\* lines 149-156: the signature, the file header and the magic at pe_offs
parse_at(blob, pe_offs) ==
    IF Slice(blob, pe_offs, pe_offs + 4) # PE_SIGNATURE THEN Failed("RuntimeError")
    ELSE parse_optional(blob, pe_offs,
            StructParse(IMAGE_FILE_HEADER, SliceFrom(blob, pe_offs + 4)),
            UnpackInt(Slice(blob, pe_offs + 4 + StructSize(IMAGE_FILE_HEADER),
                            pe_offs + 4 + StructSize(IMAGE_FILE_HEADER) + 2)))

\* _PeFile.__init__: the parsed object, or the exception it raises
parse_pe(blob) == parse_at(blob, UnpackInt(Slice(blob, 60, 62)))

(***************************************************************************)
(* The methods.  Each takes the object as the record self and yields the   *)
(* object as the call leaves it, the exception raised ("none" when the     *)
(* call returns) and the value returned.                                   *)
(***************************************************************************)
Self ==
    [dos_stub         |-> dos_stub,
     file_header      |-> file_header,
     opt_header       |-> opt_header,
     data_directories |-> data_directories,
     sections         |-> sections,
     trailer_offset   |-> trailer_offset,
     trailer          |-> trailer,
     checksum_offs    |-> checksum_offs]

NoSlice == <<0, 0>>

Returns(self, value) ==
    [self |-> self, exc |-> "none", value |-> value, sl |-> NoSlice, out |-> <<>>]

ReturnsSlice(self, start, stop) ==
    [self |-> self, exc |-> "none", value |-> "slice", sl |-> <<start, stop>>, out |-> <<>>]

Raises(self, exc) ==
    [self |-> self, exc |-> exc, value |-> "None", sl |-> NoSlice, out |-> <<>>]

Bool(b) == IF b THEN "True" ELSE "False"

file_align(self, addr) == align(addr, self.opt_header.FileAlignment)

mem_align(self, addr) == align(addr, self.opt_header.SectionAlignment)

has_trailer(self) == Returns(self, Bool(self.trailer # <<>>))

has_signature(self) ==
    Returns(self,
        Bool(/\ Len(self.data_directories) > IMAGE_DIRECTORY_ENTRY_SECURITY
             /\ self.data_directories[IMAGE_DIRECTORY_ENTRY_SECURITY + 1].VirtualAddress # 0))

\* the test of line 263, negated: the signature ends where the trailer ends
at_end_of_file(self, dd) ==
    dd.VirtualAddress + dd.Size = self.trailer_offset + Len(self.trailer)

\* in_trailer without the test: a signature that starts before the trailer passes
in_trailer_any(self, dd) == TRUE

\* the test of line 266, negated: the signature starts inside the trailer
in_trailer(self, dd) == dd.VirtualAddress >= self.trailer_offset

\* strip_signature that clears the address of the directory and not its size
strip_signature_keeps_size(self, dd) ==
    [self EXCEPT !.trailer = SliceDropLast(self.trailer, dd.Size),
                 !.data_directories[IMAGE_DIRECTORY_ENTRY_SECURITY + 1].VirtualAddress = 0]

\* lines 269-271: cut the signature off the trailer and clear its directory
strip_signature(self, dd) ==
    [self EXCEPT !.trailer = SliceDropLast(self.trailer, dd.Size),
                 !.data_directories[IMAGE_DIRECTORY_ENTRY_SECURITY + 1] =
                     [VirtualAddress |-> 0, Size |-> 0]]

remove_signature(self) ==
    LET dds == self.data_directories
        dd  == dds[IMAGE_DIRECTORY_ENTRY_SECURITY + 1]
    IN  IF Len(dds) < IMAGE_DIRECTORY_ENTRY_SECURITY THEN Returns(self, "None")
        ELSE IF IMAGE_DIRECTORY_ENTRY_SECURITY >= Len(dds) THEN Raises(self, "IndexError")
        ELSE IF dd.Size = 0 THEN Returns(self, "None")
        ELSE IF ~at_end_of_file(self, dd) THEN Raises(self, "RuntimeError")
        ELSE IF ~in_trailer(self, dd) THEN Raises(self, "RuntimeError")
        ELSE Returns(strip_signature(self, dd), "None")

remove_trailer(self) ==
    LET r == remove_signature(self)
    IN  IF r.exc # "none" THEN r
        ELSE Returns([r.self EXCEPT !.trailer = <<>>], "None")

has_directory(self, idx) ==
    LET dds == self.data_directories
    IN  IF Len(dds) < idx THEN Returns(self, "False")
        ELSE IF idx >= Len(dds) THEN Raises(self, "IndexError")
        ELSE Returns(self, Bool(dds[idx + 1].VirtualAddress # 0))

find_directory(self, idx) ==
    LET dds == self.data_directories
    IN  IF Len(dds) < idx THEN Returns(self, "None")
        ELSE IF idx >= Len(dds) THEN Raises(self, "IndexError")
        ELSE IF dds[idx + 1].VirtualAddress = 0 THEN Returns(self, "None")
        ELSE ReturnsSlice(self, dds[idx + 1].VirtualAddress,
                          dds[idx + 1].VirtualAddress + dds[idx + 1].Size)

\* the position in self.sections of the first section whose virtual range is
\* exactly [start, stop), or 0 for None
get_directory_section(self, start, stop) ==
    LET Match(k) ==
            LET vm_start == self.sections[k].hdr.VirtualAddress
                vm_stop  == vm_start + self.sections[k].hdr.VirtualSize
            IN  vm_start = start /\ vm_stop >= stop /\ vm_stop = stop
    IN  IF \E k \in 1..Len(self.sections) : Match(k)
        THEN CHOOSE k \in 1..Len(self.sections) :
                Match(k) /\ \A j \in 1..(k - 1) : ~Match(j)
        ELSE 0

\* _find_vm_hole reads the attributes VirtualAddress and VirtualSize of the
\* _PeSection objects it is given, not those of their headers
find_vm_hole(self, secs, size) ==
    LET order == SortedIdx([k \in 1..Len(secs) |-> Val(secs[k].attr).VirtualAddress])
        sorted_secs == [r \in 1..Len(secs) |-> Val(secs[order[r]].attr)]
        Start(i) == mem_align(self, sorted_secs[i - 1].VirtualAddress
                                        + sorted_secs[i - 1].VirtualSize)
        Fits(i)  == sorted_secs[i].VirtualAddress - Start(i) >= size
        last     == sorted_secs[Len(sorted_secs)]
        end      == mem_align(self, last.VirtualAddress + last.VirtualSize)
    IN  IF \E k \in 1..Len(secs) : IsNone(secs[k].attr)
        THEN [exc |-> "AttributeError", sl |-> NoSlice]
        ELSE IF secs = <<>> THEN [exc |-> "IndexError", sl |-> NoSlice]
        ELSE IF \E i \in 2..Len(secs) : Fits(i)
        THEN LET i == CHOOSE i \in 2..Len(secs) : Fits(i) /\ \A j \in 2..(i - 1) : ~Fits(j)
             IN  [exc |-> "none", sl |-> <<Start(i), mem_align(self, Start(i) + size)>>]
        ELSE [exc |-> "none", sl |-> <<end, mem_align(self, end + size)>>]

\* accommodates without the test: every size is taken to fit in place
accommodates_any(sec, size) == TRUE

\* the test of line 320: the section already accommodates size
accommodates(sec, size) == sec.hdr.VirtualSize >= size

\* shrink_in_place that resizes the section and leaves the directory as it was
shrink_section_only(self, sec_idx, idx, size) ==
    [self EXCEPT !.sections[sec_idx].hdr.VirtualSize = size]

\* lines 321-322: the section and the directory take the new size
shrink_in_place(self, sec_idx, idx, size) ==
    [self EXCEPT !.sections[sec_idx].hdr.VirtualSize = size,
                 !.data_directories[idx + 1].Size = size]

\* _resize_directory: the result carries sec_idx (a position in self.sections)
resize_directory_impl(self, idx, size) ==
    LET dd      == self.data_directories[idx + 1]
        sec_idx == get_directory_section(self, dd.VirtualAddress, dd.VirtualAddress + dd.Size)
        sec     == self.sections[sec_idx]
        other_secs == SelectSeq([k \in 1..Len(self.sections) |->
                                    [pos |-> k, attr |-> self.sections[k].attr]],
                                LAMBDA s : s.pos # sec_idx)
        hole    == find_vm_hole(self, other_secs, size)
    IN  IF idx >= Len(self.data_directories)
        THEN [sec_idx |-> 0] @@ Raises(self, "IndexError")
        ELSE IF sec_idx = 0 THEN [sec_idx |-> 0] @@ Raises(self, "RuntimeError")
        ELSE IF accommodates(sec, size)
        THEN [sec_idx |-> sec_idx] @@
             ReturnsSlice(shrink_in_place(self, sec_idx, idx, size),
                          sec.hdr.VirtualAddress, sec.hdr.VirtualAddress + size)
        ELSE IF hole.exc # "none" THEN [sec_idx |-> 0] @@ Raises(self, hole.exc)
        ELSE [sec_idx |-> sec_idx] @@
             ReturnsSlice([self EXCEPT
                             !.sections[sec_idx].attr =
                                 Some([VirtualAddress |-> hole.sl[1], VirtualSize |-> hole.sl[2]]),
                             !.data_directories[idx + 1] =
                                 [VirtualAddress |-> hole.sl[1], Size |-> size]],
                          hole.sl[1], hole.sl[2])

Result(r) == [self |-> r.self, exc |-> r.exc, value |-> r.value, sl |-> r.sl, out |-> r.out]

resize_directory(self, idx, size) == Result(resize_directory_impl(self, idx, size))

set_directory(self, idx, blob) ==
    LET r == resize_directory_impl(self, idx, Len(blob))
    IN  IF r.exc # "none" THEN Result(r)
        ELSE Returns([r.self EXCEPT !.sections[r.sec_idx].data = Some(blob)], "None")

(***************************************************************************)
(* store.                                                                  *)
(***************************************************************************)
header_end(self) ==
    Len(self.dos_stub) + 4 + StructSize(IMAGE_FILE_HEADER) + 2
    + StructSize(OptLayoutOf(self.opt_header.sig))
    + Len(self.data_directories) * StructSize(IMAGE_DATA_DIRECTORY)
    + Len(self.sections) * StructSize(IMAGE_SECTION_HEADER)

\* the test of line 356: store skips the sections it takes to have no raw data
skipped(sec) == sec.hdr.PointerToRawData = 0

\* the loop of lines 355-360 from section k on, section_offset the running offset
RECURSIVE assign_raw(_, _, _, _)
assign_raw(self, secs, k, section_offset) ==
    IF k > Len(secs) THEN secs
    ELSE IF skipped(secs[k]) THEN assign_raw(self, secs, k + 1, section_offset)
    ELSE LET size == file_align(self, Len(Val(secs[k].data)))
         IN  assign_raw(self,
                        [secs EXCEPT ![k].hdr.PointerToRawData = section_offset,
                                     ![k].hdr.SizeOfRawData = size],
                        k + 1, section_offset + size)

\* the loop of lines 379-384: every section's data followed by its padding
RECURSIVE emit_sections(_, _, _)
emit_sections(self, secs, k) ==
    IF k > Len(secs) THEN <<>>
    ELSE LET data == Val(secs[k].data)
         IN  data \o PadBlob(file_align(self, Len(data)) - Len(data))
             \o emit_sections(self, secs, k + 1)

RECURSIVE pack_all(_, _, _)
pack_all(layout, recs, k) ==
    IF k > Len(recs) THEN <<>>
    ELSE StructPack(layout, recs[k]) \o pack_all(layout, recs, k + 1)

\* lines 388-393: the checksum goes into the output
store_patched(laid, out_blob, new_checksum) ==
    IF new_checksum.exc # "none" THEN Raises(laid, new_checksum.exc)
    ELSE [self  |-> laid, exc |-> "none", value |-> "None", sl |-> NoSlice,
          out   |-> Slice(out_blob, 0, laid.checksum_offs)
                    \o PackInt(new_checksum.value, 4)
                    \o SliceFrom(out_blob, laid.checksum_offs + 4)]

\* line 389: the checksum of the output put together
store_joined(laid, out_blob) == store_patched(laid, out_blob, pe_checksum(out_blob))

\* lines 364-388: the output is put together from the object laid out
store_laid(laid, header_pad) ==
    IF \E k \in 1..Len(laid.sections) : IsNone(laid.sections[k].data)
    THEN Raises(laid, "TypeError")
    ELSE store_joined(laid,
            join_blobs(<<
                laid.dos_stub,
                PE_SIGNATURE,
                StructPack(IMAGE_FILE_HEADER, laid.file_header),
                PackInt(laid.opt_header.sig, 2),
                StructPack(OptLayoutOf(laid.opt_header.sig), laid.opt_header),
                pack_all(IMAGE_DATA_DIRECTORY, laid.data_directories, 1),
                pack_all(IMAGE_SECTION_HEADER,
                         [k \in 1..Len(laid.sections) |-> laid.sections[k].hdr], 1),
                PadBlob(header_pad),
                emit_sections(laid, laid.sections, 1),
                laid.trailer >>))

\* lines 350-362: the raw data pointers and sizes are assigned, the checksum cleared
store_checked(self, vm_exc, section_offset) ==
    IF vm_exc # "none" THEN Raises(self, vm_exc)
    ELSE store_laid([self EXCEPT !.sections = assign_raw(self, self.sections, 1, section_offset),
                                 !.opt_header.CheckSum = 0],
                    section_offset - header_end(self))

store(self) ==
    store_checked(self, check_vm_overlaps(self.sections, self.opt_header.SectionAlignment),
                  file_align(self, header_end(self)))

(***************************************************************************)
(* The input files.  A file is built from its header fields; the bytes     *)
(* after the headers are Pattern(offset), the fields not named are zero.   *)
(***************************************************************************)
Pattern(offs) == (offs % 250) + 1

Hdr(va, vs, ptr, size) ==
    [VirtualAddress |-> va, VirtualSize |-> vs, PointerToRawData |-> ptr, SizeOfRawData |-> size]

MkStub(pe_offs) ==
    [i \in 1..pe_offs |-> IF i = 61 THEN pe_offs % 256
                          ELSE IF i = 62 THEN pe_offs \div 256 ELSE 0]

MkHeaders(p) ==
    LET layout == OptLayoutOf(p.magic)
    IN  join_blobs(<<
            MkStub(p.pe_offs),
            p.pe_sig,
            StructPack(IMAGE_FILE_HEADER,
                [f \in FieldNames(IMAGE_FILE_HEADER) |->
                    IF f = "NumberOfSections" THEN Len(p.hdrs) ELSE 0]),
            PackInt(p.magic, 2),
            StructPack(layout,
                [f \in FieldNames(layout) |->
                    CASE f = "SectionAlignment"    -> p.SectionAlignment
                      [] f = "FileAlignment"       -> p.FileAlignment
                      [] f = "NumberOfRvaAndSizes" -> Len(p.dds)
                      [] OTHER                     -> 0]),
            pack_all(IMAGE_DATA_DIRECTORY,
                [k \in 1..Len(p.dds) |->
                    [VirtualAddress |-> p.dds[k][1], Size |-> p.dds[k][2]]], 1),
            pack_all(IMAGE_SECTION_HEADER,
                [k \in 1..Len(p.hdrs) |->
                    [f \in FieldNames(IMAGE_SECTION_HEADER) |->
                        CASE f = "Name" -> <<46, 115, 48 + k, 0, 0, 0, 0, 0>>
                          [] f \in DOMAIN p.hdrs[k] -> p.hdrs[k][f]
                          [] OTHER -> 0]], 1) >>)

\* the headers followed by Pattern bytes up to the length p.total
Fill(p, headers) ==
    headers \o [i \in 1..(p.total - Len(headers)) |-> Pattern(Len(headers) + i - 1)]

\* p.sum: "zero" leaves the checksum field zero, "good" stores the checksum of
\* the file, "bad" stores another value
Stamp(p, plain, sum) ==
    LET offs == p.pe_offs + 4 + StructSize(IMAGE_FILE_HEADER) + 4 * 16
    IN  IF p.sum = "zero" THEN plain
        ELSE Slice(plain, 0, offs)
             \o PackInt(sum.value + (IF p.sum = "bad" THEN 1 ELSE 0), 4)
             \o SliceFrom(plain, offs + 4)

Summed(p, plain) == Stamp(p, plain, pe_checksum(plain))

MkBlob(p) == Summed(p, Fill(p, MkHeaders(p)))

\* the section tables of the inputs; P0 is the first file offset after the
\* headers that is a multiple of FA
Shape(name, P0, FA) ==
    CASE name = "two"         -> << Hdr(16, 12, P0, FA), Hdr(32, 16, P0 + FA, 2 * FA) >>
      [] name = "reversed"    -> << Hdr(16, 12, P0 + FA, FA), Hdr(32, 16, P0, FA) >>
      [] name = "bss"         -> << Hdr(16, 12, P0, FA), Hdr(32, 16, 0, 0) >>
      [] name = "one"         -> << Hdr(16, 16, P0, FA) >>
      [] name = "three"       -> << Hdr(16, 12, P0, FA), Hdr(48, 4, P0 + FA, FA),
                                    Hdr(32, 16, P0 + 2 * FA, FA) >>
      [] name = "twins"       -> << Hdr(16, 12, P0, FA), Hdr(32, 0, 0, 0), Hdr(32, 0, 0, 0) >>
      [] name = "moved"       -> << Hdr(16, 12, P0 + FA, FA), Hdr(32, 16, P0 + 2 * FA, FA) >>
      [] name = "hole"        -> << Hdr(16, 12, P0, FA), Hdr(32, 8, P0 + 2 * FA, FA) >>
      [] name = "misaligned"  -> << Hdr(16, 12, P0 + 1, FA), Hdr(32, 8, P0 + 1 + FA, FA) >>
      [] name = "overlap"     -> << Hdr(16, 20, P0, FA), Hdr(32, 8, P0 + FA, FA) >>
      [] name = "vmisaligned" -> << Hdr(16, 12, P0, FA), Hdr(36, 8, P0 + FA, FA) >>
      [] name = "absent"      -> << Hdr(16, 12, 0, 0), Hdr(32, 8, 0, 0) >>

RECURSIVE RawEnd(_, _)
RawEnd(hdrs, P0) ==
    IF hdrs = <<>> THEN P0
    ELSE Max(IF Head(hdrs).SizeOfRawData = 0 THEN 0
             ELSE Head(hdrs).PointerToRawData + Head(hdrs).SizeOfRawData,
             RawEnd(Tail(hdrs), P0))

\* the import directory of an input: the last section's range, part of it, or absent
InputImportDir(imp, hdrs) ==
    LET h == hdrs[Len(hdrs)]
    IN  CASE imp = "exact"   -> <<h.VirtualAddress, h.VirtualSize>>
          [] imp = "partial" -> <<h.VirtualAddress, h.VirtualSize \div 2>>
          [] imp = "none"    -> <<0, 0>>

\* the security directory of an input whose raw data ends at E and whose
\* trailer has T bytes
InputSecurityDir(sec, E, T) ==
    CASE sec = "none"   -> <<0, 0>>
      [] sec = "exact"  -> <<E, T>>
      [] sec = "empty"  -> <<E, 0>>
      [] sec = "short"  -> <<E, Max(T - 2, 0)>>
      [] sec = "tail"   -> <<E + Min(T, 2), T - Min(T, 2)>>
      [] sec = "before" -> <<E - 2, T + 2>>

InputWith(pe_offs, magic, FA, nd, hdrs, imp, sec, T, sum, E) ==
    MkBlob([pe_offs |-> pe_offs, pe_sig |-> PE_SIGNATURE, magic |-> magic,
            SectionAlignment |-> 16, FileAlignment |-> FA,
            dds |-> [k \in 1..nd |->
                        IF k = IMAGE_DIRECTORY_ENTRY_IMPORT + 1 THEN InputImportDir(imp, hdrs)
                        ELSE IF k = IMAGE_DIRECTORY_ENTRY_SECURITY + 1
                             THEN InputSecurityDir(sec, E, T)
                        ELSE <<0, 0>>],
            hdrs |-> hdrs, total |-> E + T, sum |-> sum])

InputAt(pe_offs, magic, FA, nd, shape, imp, sec, T, sum, P0) ==
    InputWith(pe_offs, magic, FA, nd, Shape(shape, P0, FA), imp, sec, T, sum,
              RawEnd(Shape(shape, P0, FA), P0))

Input(pe_offs, magic, FA, nd, shape, imp, sec, T, sum) ==
    InputAt(pe_offs, magic, FA, nd, shape, imp, sec, T, sum,
            align(pe_offs + 4 + StructSize(IMAGE_FILE_HEADER) + 2
                  + StructSize(OptLayoutOf(magic)) + nd * StructSize(IMAGE_DATA_DIRECTORY)
                  + Len(Shape(shape, 0, 1)) * StructSize(IMAGE_SECTION_HEADER),
                  IF FA = 0 THEN 4 ELSE FA))

M32 == IMAGE_NT_OPTIONAL_HDR32_MAGIC
M64 == IMAGE_NT_OPTIONAL_HDR64_MAGIC

\* inputs that vary the section table and the import directory
LayoutInputs ==
    {Input(64, M32, 4, 5, shape, imp, "none", 0, "zero") :
        shape \in {"two", "reversed", "bss", "one", "three", "twins", "moved"},
        imp \in {"exact", "partial", "none"}}

\* inputs that vary the trailer, the security directory and the directory count
TrailerInputs ==
    {Input(64, M32, 4, nd, "two", "exact", sec, 2 * w, "zero") :
        nd \in 3..5, w \in 0..MaxTrailerWords,
        sec \in {"none", "exact", "empty", "short", "tail", "before"}}

\* inputs that vary the header: its variant, its alignment, its checksum, an
\* odd length, and the files parse_pe rejects
HeaderInputs ==
    {Input(64, M64, 4, 5, "two", "exact", "exact", 2, "good"),
     Input(66, M32, 4, 5, "bss", "exact", "exact", 2, "zero"),
     Input(64, M32, 16, 4, "two", "exact", "none", 2, "good"),
     Input(64, M32, 4, 5, "two", "exact", "tail", 3, "zero"),
     Input(64, M32, 4, 5, "two", "exact", "exact", 2, "bad"),
     Input(64, M32, 4, 5, "two", "exact", "exact", 3, "good"),
     Input(64, 0, 4, 5, "two", "exact", "none", 0, "zero"),
     Input(64, M32, 0, 5, "two", "exact", "none", 0, "zero")}
    \cup {Input(64, M32, 4, 5, shape, "exact", "none", 0, "zero") :
            shape \in {"hole", "misaligned", "overlap", "vmisaligned", "absent"}}

Inputs == LayoutInputs \cup TrailerInputs \cup HeaderInputs

(***************************************************************************)
(* The state machine: the object parse_pe returns for an input it accepts, *)
(* then any sequence of method calls.  ret records the last call: the      *)
(* method, its arguments, the exception it raised ("none" when it          *)
(* returned), the value it returned and, for store, the blob written;      *)
(* ret.again tells that the call before it was a call of the same method   *)
(* that returned.                                                          *)
(***************************************************************************)
Call(op, idx, size, blob, r) ==
    /\ dos_stub' = r.self.dos_stub
    /\ file_header' = r.self.file_header
    /\ opt_header' = r.self.opt_header
    /\ data_directories' = r.self.data_directories
    /\ sections' = r.self.sections
    /\ trailer_offset' = r.self.trailer_offset
    /\ trailer' = r.self.trailer
    /\ checksum_offs' = r.self.checksum_offs
    /\ ret' = [op |-> op, idx |-> idx, size |-> size, blob |-> blob,
               exc |-> r.exc, value |-> r.value, sl |-> r.sl, out |-> r.out,
               again |-> (ret.op = op /\ ret.exc = "none")]

Parsed(r) ==
    /\ r.exc = "none"
    /\ dos_stub = r.self.dos_stub
    /\ file_header = r.self.file_header
    /\ opt_header = r.self.opt_header
    /\ data_directories = r.self.data_directories
    /\ sections = r.self.sections
    /\ trailer_offset = r.self.trailer_offset
    /\ trailer = r.self.trailer
    /\ checksum_offs = r.self.checksum_offs
    /\ ret = [op |-> "parse_pe", idx |-> 0, size |-> 0, blob |-> <<>>,
              exc |-> "none", value |-> "None", sl |-> NoSlice, out |-> <<>>,
              again |-> FALSE]

Init == \E blob \in Inputs : Parsed(parse_pe(blob))

DirIdx == {IMAGE_DIRECTORY_ENTRY_IMPORT} \cup (IMAGE_DIRECTORY_ENTRY_SECURITY..MaxQueryIdx)
Sizes  == {k * 8 : k \in 0..MaxSizeUnits}
Blobs  == {[i \in 1..(k * 6) |-> 170] : k \in 0..MaxBlobUnits}

HasTrailer == Call("has_trailer", 0, 0, <<>>, has_trailer(Self))

HasSignature == Call("has_signature", 0, 0, <<>>, has_signature(Self))

RemoveSignature == Call("remove_signature", 0, 0, <<>>, remove_signature(Self))

RemoveTrailer == Call("remove_trailer", 0, 0, <<>>, remove_trailer(Self))

HasDirectory == \E idx \in DirIdx : Call("has_directory", idx, 0, <<>>, has_directory(Self, idx))

FindDirectory == \E idx \in DirIdx : Call("find_directory", idx, 0, <<>>, find_directory(Self, idx))

ResizeDirectory ==
    \E idx \in DirIdx, size \in Sizes :
        Call("resize_directory", idx, size, <<>>, resize_directory(Self, idx, size))

SetDirectory ==
    \E idx \in DirIdx, blob \in Blobs :
        Call("set_directory", idx, Len(blob), blob, set_directory(Self, idx, blob))

Store == Call("store", 0, 0, <<>>, store(Self))

Next ==
    \/ HasTrailer
    \/ HasSignature
    \/ RemoveSignature
    \/ RemoveTrailer
    \/ HasDirectory
    \/ FindDirectory
    \/ ResizeDirectory
    \/ SetDirectory
    \/ Store

Spec == Init /\ [][Next]_vars

(***************************************************************************)
(* Properties.                                                             *)
(***************************************************************************)
obj == <<dos_stub, file_header, opt_header, data_directories, sections,
         trailer_offset, trailer, checksum_offs>>

SA == opt_header.SectionAlignment
FA == opt_header.FileAlignment

VA(k)    == sections[k].hdr.VirtualAddress
VSize(k) == sections[k].hdr.VirtualSize

\* section i comes before section j when the sections are sorted by VirtualAddress
Before(i, j) == VA(i) < VA(j) \/ (VA(i) = VA(j) /\ i < j)

\* C1: in every state reached by calls of resize_directory (and of the other
\* methods), every section's VirtualAddress is a multiple of SectionAlignment
\* and, with the sections sorted by VirtualAddress, no section's virtual range
\* extends past the VirtualAddress of a section after it.
C1_VmInvariant ==
    /\ \A k \in 1..Len(sections) : VA(k) % SA = 0
    /\ \A i, j \in 1..Len(sections) : Before(i, j) => VA(i) + VSize(i) <= VA(j)

\* a resize_directory call has returned that left a directory of 8 bytes or
\* more in front of another section
C1_Witness ==
    /\ ret.op = "resize_directory" /\ ret.exc = "none" /\ ret.size > 0
    /\ \E i, j \in 1..Len(sections) :
          VA(i) = ret.sl[1] /\ VSize(i) = ret.size /\ VA(j) > VA(i)

\* section k is the one section whose virtual range is exactly that of directory idx
Owns(k, idx) ==
    LET dd == data_directories[idx + 1]
        Exact(j) == VA(j) = dd.VirtualAddress /\ VA(j) + VSize(j) = dd.VirtualAddress + dd.Size
    IN  /\ idx < Len(data_directories)
        /\ Exact(k)
        /\ \A j \in 1..Len(sections) : Exact(j) => j = k

\* the start of the first-fit hole of size bytes among the sections other than k
FirstFitStart(k, size) ==
    LET others == SelectSeq([j \in 1..Len(sections) |-> j], LAMBDA j : j # k)
        order  == SortedIdx([r \in 1..Len(others) |-> VA(others[r])])
        sec(r) == others[order[r]]
        GapStart(r) == align(VA(sec(r - 1)) + VSize(sec(r - 1)), SA)
        Fits(r) == VA(sec(r)) - GapStart(r) >= size
        n == Len(others)
    IN  IF \E r \in 2..n : Fits(r)
        THEN GapStart(CHOOSE r \in 2..n : Fits(r) /\ \A q \in 2..(r - 1) : ~Fits(q))
        ELSE align(VA(sec(n)) + VSize(sec(n)), SA)

\* C2: resize_directory(idx, newSize) on a directory that is exactly section
\* k's range, with newSize larger than k's VirtualSize, returns the first-fit
\* range [gapStart, align(gapStart + newSize)), moves the section header and
\* the directory there and leaves the other sections' ranges as they were.
C2_GrowRelocates ==
    [][\A k \in 1..Len(sections) :
        (/\ ret'.op = "resize_directory"
         /\ Len(sections) > 1
         /\ Owns(k, ret'.idx)
         /\ ret'.size > VSize(k))
        => LET gapStart == FirstFitStart(k, ret'.size)
               stop     == align(gapStart + ret'.size, SA)
           IN  /\ ret'.exc = "none"
               /\ ret'.sl = <<gapStart, stop>>
               /\ sections'[k].hdr.VirtualAddress = gapStart
               /\ sections'[k].hdr.VirtualSize \in {ret'.size, stop - gapStart}
               /\ data_directories'[ret'.idx + 1].VirtualAddress = gapStart
               /\ data_directories'[ret'.idx + 1].Size \in {ret'.size, stop - gapStart}
               /\ \A j \in 1..Len(sections) :
                     j # k => /\ sections'[j].hdr.VirtualAddress = VA(j)
                              /\ sections'[j].hdr.VirtualSize = VSize(j)]_vars

\* C3: resize_directory(idx, newSize) on a directory that is exactly section
\* k's range, with newSize <= k's VirtualSize, returns [VirtualAddress,
\* VirtualAddress + newSize), keeps the section's and the directory's
\* VirtualAddress, sets the section's VirtualSize and the directory's Size to
\* newSize and changes no other section and no other directory entry.
C3_ShrinkInPlace ==
    [][\A k \in 1..Len(sections) :
        (/\ ret'.op = "resize_directory"
         /\ Owns(k, ret'.idx)
         /\ ret'.size <= VSize(k))
        => /\ ret'.exc = "none"
           /\ ret'.sl = <<VA(k), VA(k) + ret'.size>>
           /\ sections'[k].hdr.VirtualAddress = VA(k)
           /\ sections'[k].hdr.VirtualSize = ret'.size
           /\ data_directories'[ret'.idx + 1] =
                 [VirtualAddress |-> data_directories[ret'.idx + 1].VirtualAddress,
                  Size |-> ret'.size]
           /\ Len(sections') = Len(sections)
           /\ Len(data_directories') = Len(data_directories)
           /\ \A j \in 1..Len(sections) : j # k => sections'[j] = sections[j]
           /\ \A d \in 1..Len(data_directories) :
                 d # ret'.idx + 1 => data_directories'[d] = data_directories[d]]_vars

\* resize_directory has shrunk a 16-byte directory to 8 bytes in place
C3_Witness ==
    /\ ret.op = "resize_directory" /\ ret.exc = "none" /\ ret.size = 8
    /\ data_directories[ret.idx + 1].Size = 8
    /\ \E k \in 1..Len(sections) :
          /\ Owns(k, ret.idx)
          /\ ret.sl = <<VA(k), VA(k) + 8>>

SecurityDir == data_directories[IMAGE_DIRECTORY_ENTRY_SECURITY + 1]

HasSecuritySlot == Len(data_directories) > IMAGE_DIRECTORY_ENTRY_SECURITY

\* the security directory is not the tail of the trailer
Misplaced ==
    \/ SecurityDir.VirtualAddress + SecurityDir.Size # trailer_offset + Len(trailer)
    \/ SecurityDir.VirtualAddress < trailer_offset

\* C4: remove_signature() on a security directory of nonzero Size that does
\* not end at the end of the trailer, or starts before the trailer, raises and
\* leaves the trailer and the directory entry as they were; the trailer is cut
\* only when both tests pass, and then by exactly Size bytes.
C4_SignatureContainment ==
    [][ret'.op = "remove_signature" =>
        /\ (HasSecuritySlot /\ SecurityDir.Size # 0 /\ Misplaced)
              => /\ ret'.exc # "none"
                 /\ trailer' = trailer
                 /\ data_directories' = data_directories
        /\ trailer' # trailer
              => /\ HasSecuritySlot /\ SecurityDir.Size # 0 /\ ~Misplaced
                 /\ trailer' = SubSeq(trailer, 1, Len(trailer) - SecurityDir.Size)]_vars

\* remove_signature has raised on a signature that ends at the end of the
\* trailer and starts before it
C4_Witness ==
    /\ ret.op = "remove_signature" /\ ret.exc = "RuntimeError"
    /\ HasSecuritySlot /\ SecurityDir.Size # 0
    /\ SecurityDir.VirtualAddress + SecurityDir.Size = trailer_offset + Len(trailer)
    /\ SecurityDir.VirtualAddress < trailer_offset

\* C5: store() called right after parse_pe returns, and what it writes is
\* accepted by parse_pe again with the same section contents, trailer and
\* data directories.
C5_RoundTrip ==
    [][(ret.op = "parse_pe" /\ ret'.op = "store") =>
        /\ ret'.exc = "none"
        /\ LET r == parse_pe(ret'.out)
           IN  /\ r.exc = "none"
               /\ Len(r.self.sections) = Len(sections)
               /\ \A k \in 1..Len(sections) : r.self.sections[k].data = sections[k].data
               /\ r.self.trailer = trailer
               /\ r.self.data_directories = data_directories]_vars

\* C6: after remove_trailer() returns, has_trailer() and has_signature() are false.
C6_RemoveTrailerClears ==
    (ret.op = "remove_trailer" /\ ret.exc = "none")
        => /\ has_trailer(Self).value = "False"
           /\ has_signature(Self).value = "False"

\* C7: has_directory and find_directory return False and None, without
\* raising, for an index at or past the end of the table and for an entry with
\* a zero VirtualAddress; has_signature and remove_signature do not raise when
\* the table has 4 or fewer entries.
C7_AbsentIsAValue ==
    /\ (/\ ret.op \in {"has_directory", "find_directory"}
        /\ \/ ret.idx >= Len(data_directories)
           \/ data_directories[ret.idx + 1].VirtualAddress = 0)
          => /\ ret.exc = "none"
             /\ ret.value = IF ret.op = "has_directory" THEN "False" ELSE "None"
    /\ (/\ ret.op \in {"has_signature", "remove_signature"}
        /\ Len(data_directories) <= IMAGE_DIRECTORY_ENTRY_SECURITY)
          => ret.exc = "none"

\* C8: a remove_signature() call that follows a remove_signature() call that
\* returned does not raise and changes nothing.
C8_IdempotentRemoval ==
    [][(ret'.op = "remove_signature" /\ ret'.again)
        => /\ ret'.exc = "none"
           /\ obj' = obj]_vars

\* remove_signature has returned twice in a row and the security directory is clear
C8_Witness ==
    /\ ret.op = "remove_signature" /\ ret.again /\ ret.exc = "none"
    /\ HasSecuritySlot
    /\ SecurityDir = [VirtualAddress |-> 0, Size |-> 0]

HasData(k) == ~IsNone(sections[k].data)

\* the file offset at which store() emits section k: the header region size
\* aligned to FileAlignment, plus the aligned sizes of the sections with data
\* before k
RECURSIVE RunningOffset(_)
RunningOffset(k) ==
    IF k = 1 THEN align(header_end(Self), FA)
    ELSE RunningOffset(k - 1)
         + (IF HasData(k - 1) THEN align(Len(Val(sections[k - 1].data)), FA) ELSE 0)

\* C9: after store() every section with raw data has PointerToRawData at the
\* running file offset and SizeOfRawData the aligned length of its data, and
\* the output holds the section's data at that offset.
C9_StoreLayout ==
    (ret.op = "store" /\ ret.exc = "none")
        => \A k \in 1..Len(sections) :
              HasData(k) =>
                 /\ sections[k].hdr.PointerToRawData = RunningOffset(k)
                 /\ sections[k].hdr.SizeOfRawData = align(Len(Val(sections[k].data)), FA)
                 /\ Slice(ret.out, sections[k].hdr.PointerToRawData,
                          sections[k].hdr.PointerToRawData + Len(Val(sections[k].data)))
                       = Val(sections[k].data)

\* C10: a security directory that is present ends at the end of the trailer
\* and starts at or after the trailer start, the trailer start being the end
\* of the last section's raw data in the layout store() writes.
C10_SecurityInTrailer ==
    (HasSecuritySlot /\ SecurityDir.VirtualAddress # 0)
        => LET start == RunningOffset(Len(sections) + 1)
           IN  /\ SecurityDir.VirtualAddress + SecurityDir.Size = start + Len(trailer)
               /\ SecurityDir.VirtualAddress >= start

====
